---- MODULE Spec2Model ----
(***************************************************************************)
(* Mode hierarchy of a Joystick Gremlin profile as edited by ModeManagerUi *)
(* (gremlin/ui_dialogs.py), and the routing of an input event through the  *)
(* inheritance chain of the active mode.                                   *)
(*                                                                         *)
(* A profile is a dictionary of devices; every device owns a dictionary    *)
(* `modes` from mode name to a Mode object with the fields name, inherit   *)
(* and the per-input bindings of that mode (config).                       *)
(***************************************************************************)
EXTENDS Integers, Sequences, FiniteSets, TLC

\* ------------------------------------------------------------------ bounds

\* Number of devices of the profile (profile.devices)
NumDevices == 2
\* Number of distinct texts a user may type as a mode name
MaxModes == 3
\* Number of modes of the profiles events are routed in
RouteModes == 2
\* Longest list of names handed to cycle_modes
MaxCycleLen == 2
\* Raw axis samples range over -MaxRaw..MaxRaw
MaxRaw == 1
\* Keyboard events counted
MaxKeys == 3
\* Entries of the merge axis dialog
MaxEntries == 2
\* Input ids handed to set_selection range over 1..MaxInput
MaxInput == 3

\* ------------------------------------------------------------- value space

\* The texts a user may type as a mode name, in the order of Python's
\* sorted(); a mode may be called "None", the text of the first dropdown item
AllNames == <<"Global", "Landing", "None", "Racing", "Radio", "Zoom">>

Names == {AllNames[i] : i \in 1..(IF MaxModes < Len(AllNames) THEN MaxModes ELSE Len(AllNames))}

\* Python's None, the inherit value of a root mode; no mode name equals it
PyNone == "<py-None>"

\* profile.devices, in dictionary order; the code reads
\* list(self._profile.devices.values())[0]
Devices == 1..NumDevices

FirstDevice == 1

\* Inputs of a device and the handlers bound to them
Inputs == {"button1", "button2"}

\* The handlers of a script, in the order in which it registers them; each
\* is registered once, under one (mode, device, input) key
HandlerOrder == <<"X", "Y">>

Handlers == {HandlerOrder[i] : i \in 1..Len(HandlerOrder)}

EmptyConfig == [i \in Inputs |-> <<>>]

\* profile.Mode(device): a fresh mode inherits from nothing and binds nothing
Mode == [name |-> PyNone, inherit |-> PyNone, config |-> EmptyConfig]

VARIABLES
    profile,        \* profile[d] is device d's dictionary modes: name -> Mode
    prev,           \* the profile before the last operation
    last,           \* the last operation: [op, mode, arg, outcome]
    invoked,        \* handlers invoked by the last routed event, in order
    active_mode,    \* Mode Switch Controller: the mode governing resolution
    previous_mode,  \* Mode Switch Controller: one level of history, or PyNone
    current_selection_id,   \* CalibrationUi: the selected device
    axes,           \* CalibrationUi: the selected device's axis widgets
    observed,       \* per axis, the raw samples it was sent since its creation
    keyboard_hook,  \* EventListener().keyboard_hook: "started" or "stopped"
    dialogs,        \* the editor dialogs that are open
    delivered,      \* the number of keyboard events delivered
    gui,            \* the position of the GUI thread inside a handler
    merge_axes,     \* profile_data.merge_axes: the merged-axis definitions
    entries,        \* MergeAxisUi.entries: the MergeAxisEntry widgets
    selector        \* a JoystickSelector: its dropdowns and their indices

switchVars == <<active_mode, previous_mode>>

calVars == <<current_selection_id, axes, observed>>

hookVars == <<keyboard_hook, dialogs, delivered>>

\* The state outside the mode graph and the router
mergeVars == <<merge_axes, entries>>

restVars == <<switchVars, calVars, hookVars, gui, mergeVars, selector>>

vars == <<profile, prev, last, invoked, restVars>>

Op(op, mode, arg, outcome) == [op |-> op, mode |-> mode, arg |-> arg, outcome |-> outcome]

\* -------------------------------------------------------------- util, Mode

\* util.mode_list(profile): the names of the modes of all devices
mode_list(p) == UNION {DOMAIN p[d] : d \in Devices}

\* ---------------------------------------------- _change_mode_inheritance

\* The while loop of the cycle check, on the modes of the first device:
\* walks the chain of cur_mode and reports "cycle" when a parent is mode.
\* "error" stands for the KeyError of all_modes[cur_mode] and for a walk
\* that does not end; in both the handler does not reach the update.
\* Variant that compares the visited mode, not its parent, with mode
RECURSIVE CycleWalk_visited(_, _, _, _)
CycleWalk_visited(all_modes, cur_mode, mode, fuel) ==
    IF cur_mode \notin DOMAIN all_modes \/ fuel = 0 THEN "error"
    ELSE IF all_modes[cur_mode].inherit = PyNone THEN "none"
    ELSE IF cur_mode = mode THEN "cycle"
    ELSE CycleWalk_visited(all_modes, all_modes[cur_mode].inherit, mode, fuel - 1)

RECURSIVE CycleWalk(_, _, _, _)
CycleWalk(all_modes, cur_mode, mode, fuel) ==
    IF cur_mode \notin DOMAIN all_modes \/ fuel = 0 THEN "error"
    ELSE IF all_modes[cur_mode].inherit = PyNone THEN "none"
    ELSE IF all_modes[cur_mode].inherit = mode THEN "cycle"
    ELSE CycleWalk(all_modes, all_modes[cur_mode].inherit, mode, fuel - 1)

\* Variant without the cycle check
has_inheritance_cycle_skipped(p, mode, inherit) == "none"

has_inheritance_cycle(p, mode, inherit) ==
    IF inherit # "None"
    THEN CycleWalk(p[FirstDevice], inherit, mode, Len(AllNames) + 1)
    ELSE "none"

\* Variant that updates the first device only
SetInheritAll_first(p, mode, inherit) ==
    [p EXCEPT ![FirstDevice][mode].inherit = IF inherit = "None" THEN PyNone ELSE inherit]

\* The update of the inheritance information in every device
SetInheritAll(p, mode, inherit) ==
    [d \in Devices |->
        [k \in DOMAIN p[d] |->
            IF k = mode
            THEN [p[d][k] EXCEPT !.inherit = IF inherit = "None" THEN PyNone ELSE inherit]
            ELSE p[d][k]]]

\* _change_mode_inheritance(mode, inherit): the profile it leaves
ChangeModeInheritance(p, mode, inherit) ==
    IF has_inheritance_cycle(p, mode, inherit) = "none"
    THEN SetInheritAll(p, mode, inherit)
    ELSE p

\* ------------------------------------------------- _populate_mode_layout

\* mode_list of _populate_mode_layout: mode.name -> mode.inherit, taken from
\* the first device that has a mode of that name
LayoutNames(p) == UNION {{p[d][k].name : k \in DOMAIN p[d]} : d \in Devices}

LayoutInherit(p, name) ==
    LET d == CHOOSE d \in Devices :
                 /\ \E k \in DOMAIN p[d] : p[d][k].name = name
                 /\ \A e \in Devices : e < d => \A k \in DOMAIN p[e] : p[e][k].name # name
        k == CHOOSE k \in DOMAIN p[d] : p[d][k].name = name
    IN p[d][k].inherit

\* setCurrentText(inherit) on the dropdown of mode, whose items are "None"
\* followed by the other names: the index changes, and the connected callback
\* runs, when the text is found at an index other than 0
DropdownFires(names, mode, inherit) ==
    /\ inherit # "None"
    /\ inherit \in names \ {mode}

\* The loop over sorted(mode_list.items()), from position i on; names and
\* inh are the snapshot taken before the loop, the callbacks act on p
RECURSIVE PopulateFrom(_, _, _, _)
PopulateFrom(p, names, inh, i) ==
    IF i > Len(AllNames) THEN p
    ELSE LET mode == AllNames[i] IN
         IF mode \in names /\ DropdownFires(names, mode, inh[mode])
         THEN PopulateFrom(ChangeModeInheritance(p, mode, inh[mode]), names, inh, i + 1)
         ELSE PopulateFrom(p, names, inh, i + 1)

populate_mode_layout(p) ==
    LET names == LayoutNames(p)
        inh == [n \in names |-> LayoutInherit(p, n)]
    IN PopulateFrom(p, names, inh, 1)

\* ------------------------------------------------------------ _add_mode_cb

\* Variant that creates the mode on the first device only
AddToDevices_first(p, name) ==
    [d \in Devices |->
        IF d = FirstDevice
        THEN [k \in DOMAIN p[d] \cup {name} |->
                 IF k = name THEN [Mode EXCEPT !.name = name] ELSE p[d][k]]
        ELSE p[d]]

AddToDevices(p, name) ==
    [d \in Devices |->
        [k \in DOMAIN p[d] \cup {name} |->
            IF k = name THEN [Mode EXCEPT !.name = name] ELSE p[d][k]]]

\* Variant without the check for an existing name
add_mode_unchecked(p, name) == populate_mode_layout(AddToDevices(p, name))

add_mode(p, name) ==
    IF name \in mode_list(p)
    THEN populate_mode_layout(p)
    ELSE populate_mode_layout(AddToDevices(p, name))

AddMode(name, user_input) ==
    /\ prev' = profile
    /\ profile' = IF user_input THEN add_mode(profile, name) ELSE profile
    /\ last' = Op("add_mode", name, PyNone,
                  IF ~user_input THEN "cancelled"
                  ELSE IF name \in mode_list(profile) THEN "DuplicateNameError"
                  ELSE "ok")
    /\ UNCHANGED <<invoked, restVars>>

\* ------------------------------------------------------------ _rename_mode

\* Variant that moves the mode to its new key and leaves the inherit
\* pointers of the other modes alone
RenameInDevice_keyonly(m, mode_name, name) ==
    [k \in (DOMAIN m \cup {name}) \ {mode_name} |->
        IF k = name THEN [m[mode_name] EXCEPT !.name = name] ELSE m[k]]

\* The body of the loop over the devices, for the modes m of one device
RenameInDevice(m, mode_name, name) ==
    LET moved == [k \in (DOMAIN m \cup {name}) \ {mode_name} |->
                     IF k = name THEN [m[mode_name] EXCEPT !.name = name] ELSE m[k]]
    IN [k \in DOMAIN moved |->
           IF moved[k].inherit = mode_name
           THEN [moved[k] EXCEPT !.inherit = name]
           ELSE moved[k]]

\* Variant without the check for an existing name
rename_mode_unchecked(p, mode_name, name) ==
    populate_mode_layout([d \in Devices |-> RenameInDevice(p[d], mode_name, name)])

rename_mode(p, mode_name, name) ==
    IF name \in mode_list(p)
    THEN populate_mode_layout(p)
    ELSE populate_mode_layout([d \in Devices |-> RenameInDevice(p[d], mode_name, name)])

RenameMode(mode_name, name, user_input) ==
    /\ mode_name \in mode_list(profile)
    /\ prev' = profile
    /\ profile' = IF user_input THEN rename_mode(profile, mode_name, name) ELSE profile
    /\ last' = Op("rename_mode", mode_name, name,
                  IF ~user_input THEN "cancelled"
                  ELSE IF name \in mode_list(profile) THEN "DuplicateNameError"
                  ELSE "ok")
    /\ UNCHANGED <<invoked, restVars>>

\* ------------------------------------------------------------ _delete_mode

\* Variant that forgets the parent of the deleted mode
parent_of_deleted_dropped(p, mode_name) == PyNone

\* The mode from which the mode to delete inherits, read in the first device
parent_of_deleted(p, mode_name) ==
    IF \E k \in DOMAIN p[FirstDevice] : p[FirstDevice][k].name = mode_name
    THEN LET k == CHOOSE k \in DOMAIN p[FirstDevice] : p[FirstDevice][k].name = mode_name
         IN p[FirstDevice][k].inherit
    ELSE PyNone

\* Variant that leaves the modes inheriting from the deleted mode alone
ReparentInDevice_skipped(m, mode_name, parent) == m

ReparentInDevice(m, mode_name, parent) ==
    [k \in DOMAIN m |->
        IF m[k].inherit = mode_name THEN [m[k] EXCEPT !.inherit = parent] ELSE m[k]]

RemoveFromDevice(m, mode_name) == [k \in DOMAIN m \ {mode_name} |-> m[k]]

delete_mode(p, mode_name) ==
    LET parent == parent_of_deleted(p, mode_name)
        reparented == [d \in Devices |-> ReparentInDevice(p[d], mode_name, parent)]
        removed == [d \in Devices |-> RemoveFromDevice(reparented[d], mode_name)]
    IN populate_mode_layout(removed)

DeleteMode(mode_name) ==
    /\ mode_name \in mode_list(profile)
    /\ prev' = profile
    /\ profile' = delete_mode(profile, mode_name)
    /\ last' = Op("delete_mode", mode_name, PyNone, "ok")
    /\ UNCHANGED <<invoked, restVars>>

\* ------------------------------------------- the inheritance dropdown

\* The text of a dropdown item: item 0 reads "None", the others are the
\* names of the other modes (a picked item of PyNone stands for item 0)
ItemText(item) == IF item = PyNone THEN "None" ELSE item

\* The user picks an item of the dropdown of mode, item 0 or another mode;
\* currentTextChanged passes the text of the item to the callback
SetInherit(mode, item) ==
    /\ mode \in mode_list(profile)
    /\ item \in {PyNone} \cup (mode_list(profile) \ {mode})
    /\ prev' = profile
    /\ profile' = ChangeModeInheritance(profile, mode, ItemText(item))
    /\ last' = Op("set_inherit", mode, item,
                  IF has_inheritance_cycle(profile, mode, ItemText(item)) = "none"
                  THEN "ok" ELSE "CycleError")
    /\ UNCHANGED <<invoked, restVars>>

\* ------------------------------------------------- resolve_chain (Mode Graph)

\* resolve_chain(device, mode_name): the names from mode_name along inherit
\* up to a root; a name that is no mode of the device ends the chain
RECURSIVE ChainFrom(_, _, _)
ChainFrom(m, mode_name, fuel) ==
    IF mode_name \notin DOMAIN m \/ fuel = 0 THEN <<>>
    ELSE IF m[mode_name].inherit = PyNone THEN <<mode_name>>
    ELSE <<mode_name>> \o ChainFrom(m, m[mode_name].inherit, fuel - 1)

resolve_chain(p, d, mode_name) == ChainFrom(p[d], mode_name, Cardinality(DOMAIN p[d]) + 1)

\* The modes reached from k by one or more inherit steps
RECURSIVE Ancestors(_, _, _)
Ancestors(m, k, fuel) ==
    IF fuel = 0 \/ k \notin DOMAIN m \/ m[k].inherit = PyNone THEN {}
    ELSE {m[k].inherit} \cup Ancestors(m, m[k].inherit, fuel - 1)

AncestorsOf(m, k) == Ancestors(m, k, Cardinality(DOMAIN m) + 1)

\* ------------------------------------------ Binding Table, Event Router

\* The handlers registered under some key of the profile
Registered(p) ==
    {h \in Handlers :
        \E d \in Devices : \E k \in DOMAIN p[d] : \E i \in Inputs :
            \E n \in 1..Len(p[d][k].config[i]) : p[d][k].config[i][n] = h}

\* bind(mode, device_id, input, handler): registers handler after the
\* handlers already registered under the same key
bind(p, d, mode, input, handler) ==
    [p EXCEPT ![d][mode].config[input] = Append(@, handler)]

\* lookup(mode, device_id, input): the handlers bound directly at mode
lookup(p, d, mode, input) == p[d][mode].config[input]

\* Step 4 of the Event Router: the handlers of the first mode of the chain
\* with a non-empty lookup result, from position i of the chain on
RECURSIVE WalkChain(_, _, _, _, _)
WalkChain(p, d, input, chain, i) ==
    IF i > Len(chain) THEN <<>>
    ELSE IF lookup(p, d, chain[i], input) # <<>> THEN lookup(p, d, chain[i], input)
    ELSE WalkChain(p, d, input, chain, i + 1)

\* Variant that invokes the handlers of every mode of the chain
RECURSIVE WalkWholeChain(_, _, _, _, _)
WalkWholeChain(p, d, input, chain, i) ==
    IF i > Len(chain) THEN <<>>
    ELSE lookup(p, d, chain[i], input) \o WalkWholeChain(p, d, input, chain, i + 1)

route_event_all(p, d, input, active) ==
    WalkWholeChain(p, d, input, resolve_chain(p, d, active), 1)

\* The handlers invoked for an event of (d, input) in active mode active
route_event(p, d, input, active) ==
    WalkChain(p, d, input, resolve_chain(p, d, active), 1)

\* The script registers its next handler under the key (mode, d, input)
Bind(d, mode, input) ==
    /\ mode \in DOMAIN profile[d]
    /\ \E n \in 1..Len(HandlerOrder) :
           /\ HandlerOrder[n] \notin Registered(profile)
           /\ \A j \in 1..(n - 1) : HandlerOrder[j] \in Registered(profile)
           /\ profile' = bind(profile, d, mode, input, HandlerOrder[n])
           /\ last' = Op("bind", mode, <<d, input, HandlerOrder[n]>>, "ok")
    /\ prev' = profile
    /\ UNCHANGED <<invoked, restVars>>

Route(d, input, active) ==
    /\ active \in DOMAIN profile[d]
    /\ prev' = profile
    /\ UNCHANGED profile
    /\ invoked' = route_event(profile, d, input, active)
    /\ last' = Op("route", active, <<d, input>>, "ok")
    /\ UNCHANGED restVars

\* ------------------------------------------------- Mode Switch Controller

\* The elements of a sequence
Range(s) == {s[i] : i \in 1..Len(s)}

\* switch_mode(name) with the modes known: the pair <<active, previous>>
switch_mode(active, previous, name, known) ==
    IF name \in known THEN <<name, active>> ELSE <<active, previous>>

\* Variant that overwrites active_mode and keeps no history
switch_to_previous_mode_noswap(active, previous) ==
    IF previous = PyNone THEN <<active, previous>> ELSE <<previous, previous>>

\* switch_to_previous_mode(): swaps the two modes unless previous is unset
switch_to_previous_mode(active, previous) ==
    IF previous = PyNone THEN <<active, previous>> ELSE <<previous, active>>

\* Variant that does not wrap after the last name
cycle_modes_nowrap(active, ordered_names) ==
    IF active \notin Range(ordered_names) THEN active
    ELSE LET i == CHOOSE i \in 1..Len(ordered_names) :
                      /\ ordered_names[i] = active
                      /\ \A j \in 1..(i - 1) : ordered_names[j] # active
         IN IF i < Len(ordered_names) THEN ordered_names[i + 1] ELSE ordered_names[i]

\* cycle_modes(ordered_names): the active mode it leaves
cycle_modes(active, ordered_names) ==
    IF active \notin Range(ordered_names) THEN active
    ELSE LET i == CHOOSE i \in 1..Len(ordered_names) :
                      /\ ordered_names[i] = active
                      /\ \A j \in 1..(i - 1) : ordered_names[j] # active
         IN ordered_names[(i % Len(ordered_names)) + 1]

SwitchMode(name) ==
    /\ active_mode' = switch_mode(active_mode, previous_mode, name, mode_list(profile))[1]
    /\ previous_mode' = switch_mode(active_mode, previous_mode, name, mode_list(profile))[2]
    /\ last' = Op("switch_mode", name, active_mode,
                  IF name \in mode_list(profile) THEN "ok" ELSE "NotFoundError")
    /\ UNCHANGED <<profile, prev, invoked, calVars, hookVars, gui, mergeVars, selector>>

SwitchToPreviousMode ==
    /\ active_mode' = switch_to_previous_mode(active_mode, previous_mode)[1]
    /\ previous_mode' = switch_to_previous_mode(active_mode, previous_mode)[2]
    /\ last' = Op("switch_to_previous_mode", active_mode, last.op, "ok")
    /\ UNCHANGED <<profile, prev, invoked, calVars, hookVars, gui, mergeVars, selector>>

CycleModes(ordered_names) ==
    /\ active_mode' = cycle_modes(active_mode, ordered_names)
    /\ last' = Op("cycle_modes", active_mode, ordered_names,
                  IF active_mode \in Range(ordered_names)
                  THEN "ok" ELSE "InvalidArgumentError")
    /\ UNCHANGED <<profile, prev, invoked, previous_mode, calVars, hookVars, gui, mergeVars, selector>>

\* --------------------------------------------------------- CalibrationUi

RawValues == (0 - MaxRaw)..MaxRaw

\* The number of axes of a device: the first has two, the others one
DeviceAxes(d) == IF d = 1 THEN 2 ELSE 1

EventTypes == {"JoystickAxis", "JoystickButton"}

\* The events the listener emits: axis samples and button presses
Events ==
    {[device |-> d, event_type |-> "JoystickAxis", identifier |-> i, raw_value |-> v] :
        d \in Devices, i \in 1..2, v \in RawValues}
    \cup {[device |-> d, event_type |-> "JoystickButton", identifier |-> 1, raw_value |-> 0] :
        d \in Devices}

\* AxisCalibrationWidget(): nothing sampled, no center captured
AxisCalibrationWidget ==
    [sampled |-> FALSE, current |-> 0, minimum |-> 0, maximum |-> 0,
     captured |-> FALSE, center |-> 0]

\* widget.set_current(value): shows the sample, widens minimum and maximum
set_current(w, value) ==
    [w EXCEPT !.sampled = TRUE,
              !.current = value,
              !.minimum = IF w.sampled /\ w.minimum <= value THEN w.minimum ELSE value,
              !.maximum = IF w.sampled /\ w.maximum >= value THEN w.maximum ELSE value]

\* widget.centered(): the center becomes the most recent sample
centered(w) ==
    IF w.sampled THEN [w EXCEPT !.captured = TRUE, !.center = w.current] ELSE w

\* Variant that captures the center of the first axis only
calibrate_centers_first(a) ==
    [i \in DOMAIN a |-> IF i = 1 THEN centered(a[i]) ELSE a[i]]

calibrate_centers(a) ==
    [i \in DOMAIN a |-> centered(a[i])]

create_axes(index) ==
    [i \in 1..DeviceAxes(index) |-> AxisCalibrationWidget]

\* Does the handler take the event: selected device, axis event
Accepted(sel, event) ==
    event.device = sel /\ event.event_type = "JoystickAxis"

\* Variant that takes the axis events of every device
handle_event_anydevice(a, sel, event) ==
    IF event.event_type = "JoystickAxis" /\ event.identifier \in DOMAIN a
    THEN [a EXCEPT ![event.identifier] = set_current(@, event.raw_value)]
    ELSE a

handle_event(a, sel, event) ==
    IF Accepted(sel, event)
    THEN [a EXCEPT ![event.identifier] = set_current(@, event.raw_value)]
    ELSE a

\* No sample sent to an axis yet
NoSamples == [any |-> FALSE, lo |-> 0, hi |-> 0, recent |-> 0]

\* The samples of an axis after one more
Observe(o, v) ==
    [any |-> TRUE,
     lo |-> IF o.any /\ o.lo <= v THEN o.lo ELSE v,
     hi |-> IF o.any /\ o.hi >= v THEN o.hi ELSE v,
     recent |-> v]

\* The device dropdown changes to another device
CreateAxes(index) ==
    /\ index # current_selection_id
    /\ current_selection_id' = index
    /\ axes' = create_axes(index)
    /\ observed' = [i \in 1..DeviceAxes(index) |-> NoSamples]
    /\ last' = Op("_create_axes", PyNone, index, "ok")
    /\ UNCHANGED <<profile, prev, invoked, switchVars, hookVars, gui, mergeVars, selector>>

\* The "Centered" button
CalibrateCenters ==
    /\ axes' = calibrate_centers(axes)
    /\ last' = Op("_calibrate_centers", PyNone, PyNone, "ok")
    /\ UNCHANGED <<profile, prev, invoked, switchVars, hookVars, gui, mergeVars, selector,
                   current_selection_id, observed>>

\* The listener emits an event of a device that has the axis or button
HandleEvent(event) ==
    /\ event.identifier <= DeviceAxes(event.device)
    /\ axes' = handle_event(axes, current_selection_id, event)
    /\ observed' = IF Accepted(current_selection_id, event)
                   THEN [observed EXCEPT ![event.identifier] = Observe(@, event.raw_value)]
                   ELSE observed
    /\ last' = Op("_handle_event", PyNone, <<event.device, event.event_type>>, "ok")
    /\ UNCHANGED <<profile, prev, invoked, switchVars, hookVars, gui, mergeVars, selector,
                   current_selection_id>>

\* ------------------------------------------------- editors and the hook

\* The dialogs that stop the keyboard hook while they are open
EditorDialogs == {"ModeManagerUi", "ModuleManagerUi"}

\* ModeManagerUi.__init__ / ModuleManagerUi.__init__
OpenDialog(dialog) ==
    /\ dialog \notin dialogs
    /\ dialogs' = dialogs \cup {dialog}
    /\ keyboard_hook' = "stopped"
    /\ last' = Op("__init__", PyNone, dialog, "ok")
    /\ UNCHANGED <<profile, prev, invoked, switchVars, calVars, delivered, gui,
                   mergeVars, selector>>

\* ModeManagerUi.closeEvent / ModuleManagerUi.closeEvent
CloseDialog(dialog) ==
    /\ dialog \in dialogs
    /\ dialogs' = dialogs \ {dialog}
    /\ keyboard_hook' = "started"
    /\ last' = Op("closeEvent", PyNone, dialog, "ok")
    /\ UNCHANGED <<profile, prev, invoked, switchVars, calVars, delivered, gui,
                   mergeVars, selector>>

\* The hook delivers a keyboard event
KeyboardEvent ==
    /\ keyboard_hook = "started"
    /\ delivered < MaxKeys
    /\ delivered' = delivered + 1
    /\ last' = Op("keyboard_event", PyNone, PyNone, "ok")
    /\ UNCHANGED <<profile, prev, invoked, switchVars, calVars, keyboard_hook,
                   dialogs, gui, mergeVars, selector>>

\* ------------------------------------- the handlers, statement by statement

\* The GUI thread between two handlers
GuiIdle == [pc |-> "idle", op |-> "none", mode |-> PyNone, arg |-> PyNone, device |-> 0]

\* Variant in which every statement of a handler lets the event loop run
HandlerYields_always(pc) == TRUE

\* The positions at which a handler runs a nested event loop: the
\* QInputDialog.getText of _rename_mode, before it touches the profile
HandlerYields(pc) == pc = "getText"

\* Events are routed by the GUI thread's event loop: between two handlers
\* and inside the nested event loop of a dialog
RoutingEnabled == gui.pc = "idle" \/ HandlerYields(gui.pc)

\* device.modes[name] = device.modes[mode_name]; .name = name; del
MoveKey(m, mode_name, name) ==
    [k \in (DOMAIN m \cup {name}) \ {mode_name} |->
        IF k = name THEN [m[mode_name] EXCEPT !.name = name] ELSE m[k]]

\* The loop over device.modes.values() that updates the inherit pointers
RewriteInherit(m, mode_name, name) ==
    [k \in DOMAIN m |->
        IF m[k].inherit = mode_name THEN [m[k] EXCEPT !.inherit = name] ELSE m[k]]

\* The device after the current one, or a new position after the last
NextDevice(pc_loop, pc_after) ==
    IF gui.device < NumDevices
    THEN [gui EXCEPT !.pc = pc_loop, !.device = gui.device + 1]
    ELSE [gui EXCEPT !.pc = pc_after, !.device = 1]

\* _rename_mode is called and shows the input dialog
BeginRename(mode_name) ==
    /\ gui.pc = "idle"
    /\ mode_name \in mode_list(profile)
    /\ gui' = [pc |-> "getText", op |-> "rename_mode", mode |-> mode_name,
               arg |-> PyNone, device |-> 0]
    /\ prev' = profile
    /\ UNCHANGED <<profile, last, invoked, switchVars, calVars, hookVars, mergeVars, selector>>

\* The input dialog returns
AnswerRename(name, user_input) ==
    /\ gui.pc = "getText"
    /\ IF ~user_input
       THEN /\ gui' = GuiIdle
            /\ last' = Op("rename_mode", gui.mode, name, "cancelled")
            /\ UNCHANGED profile
       ELSE IF name \in mode_list(profile)
       THEN /\ gui' = GuiIdle
            /\ last' = Op("rename_mode", gui.mode, name, "DuplicateNameError")
            /\ profile' = populate_mode_layout(profile)
       ELSE /\ gui' = [gui EXCEPT !.pc = "move_key", !.arg = name, !.device = 1]
            /\ UNCHANGED <<profile, last>>
    /\ prev' = profile
    /\ UNCHANGED <<invoked, switchVars, calVars, hookVars, mergeVars, selector>>

RenameMoveKey ==
    /\ gui.pc = "move_key"
    /\ profile' = [profile EXCEPT ![gui.device] = MoveKey(@, gui.mode, gui.arg)]
    /\ gui' = [gui EXCEPT !.pc = "rewrite_inherit"]
    /\ UNCHANGED <<prev, last, invoked, switchVars, calVars, hookVars, mergeVars, selector>>

RenameRewriteInherit ==
    /\ gui.pc = "rewrite_inherit"
    /\ profile' = [profile EXCEPT ![gui.device] = RewriteInherit(@, gui.mode, gui.arg)]
    /\ gui' = NextDevice("move_key", "populate")
    /\ UNCHANGED <<prev, last, invoked, switchVars, calVars, hookVars, mergeVars, selector>>

\* _delete_mode is called and reads the parent of the mode
BeginDelete(mode_name) ==
    /\ gui.pc = "idle"
    /\ mode_name \in mode_list(profile)
    /\ gui' = [pc |-> "reparent", op |-> "delete_mode", mode |-> mode_name,
               arg |-> parent_of_deleted(profile, mode_name), device |-> 1]
    /\ prev' = profile
    /\ UNCHANGED <<profile, last, invoked, switchVars, calVars, hookVars, mergeVars, selector>>

DeleteReparent ==
    /\ gui.pc = "reparent"
    /\ profile' = [profile EXCEPT ![gui.device] = ReparentInDevice(@, gui.mode, gui.arg)]
    /\ gui' = NextDevice("reparent", "remove")
    /\ UNCHANGED <<prev, last, invoked, switchVars, calVars, hookVars, mergeVars, selector>>

DeleteRemove ==
    /\ gui.pc = "remove"
    /\ profile' = [profile EXCEPT ![gui.device] = RemoveFromDevice(@, gui.mode)]
    /\ gui' = NextDevice("remove", "populate")
    /\ UNCHANGED <<prev, last, invoked, switchVars, calVars, hookVars, mergeVars, selector>>

\* The _populate_mode_layout that ends _rename_mode and _delete_mode
Populate ==
    /\ gui.pc = "populate"
    /\ profile' = populate_mode_layout(profile)
    /\ gui' = GuiIdle
    /\ last' = Op(gui.op, gui.mode,
                  IF gui.op = "delete_mode" THEN PyNone ELSE gui.arg, "ok")
    /\ UNCHANGED <<prev, invoked, switchVars, calVars, hookVars, mergeVars, selector>>

\* _change_mode_inheritance is called by a dropdown and checks for a cycle
BeginSetInherit(mode, item) ==
    /\ gui.pc = "idle"
    /\ mode \in mode_list(profile)
    /\ item \in {PyNone} \cup (mode_list(profile) \ {mode})
    /\ prev' = profile
    /\ IF has_inheritance_cycle(profile, mode, ItemText(item)) = "none"
       THEN /\ gui' = [pc |-> "set_inherit", op |-> "set_inherit", mode |-> mode,
                       arg |-> item, device |-> 1]
            /\ UNCHANGED last
       ELSE /\ gui' = GuiIdle
            /\ last' = Op("set_inherit", mode, item, "CycleError")
    /\ UNCHANGED <<profile, invoked, switchVars, calVars, hookVars, mergeVars, selector>>

SetInheritDevice ==
    /\ gui.pc = "set_inherit"
    /\ profile' = [profile EXCEPT ![gui.device][gui.mode].inherit =
                       IF ItemText(gui.arg) = "None" THEN PyNone ELSE ItemText(gui.arg)]
    /\ gui' = IF gui.device < NumDevices
              THEN [gui EXCEPT !.device = gui.device + 1]
              ELSE GuiIdle
    /\ last' = IF gui.device < NumDevices THEN last
               ELSE Op("set_inherit", gui.mode, gui.arg, "ok")
    /\ UNCHANGED <<prev, invoked, switchVars, calVars, hookVars, mergeVars, selector>>

\* The event loop routes an event
RouteEvent(d, input, active) ==
    /\ RoutingEnabled
    /\ Route(d, input, active)

\* ----------------------------------------------------------- MergeAxisUi

\* sorted(names) as a list
Sorted(names) == SelectSeq(AllNames, LAMBDA n : n \in names)

\* MergeAxisEntry(change_cb, profile_data): its mode selector is populated
\* from the profile and shows its first item; the axis selectors are left
\* at their first items and are not part of the model
MergeAxisEntry(p) ==
    [mode_list |-> Sorted(mode_list(p)),
     mode_idx |-> IF mode_list(p) = {} THEN 0 ELSE 1,
     closed |-> FALSE]

\* The loop of to_profile over self.entries from position i on: one
\* definition per entry; mode_list[mode_idx] of an entry without modes
\* raises IndexError, which ends the handler
RECURSIVE ToProfileFrom(_, _)
ToProfileFrom(es, i) ==
    IF i > Len(es) \/ es[i].mode_idx = 0 THEN <<>>
    ELSE <<[mode |-> es[i].mode_list[es[i].mode_idx]]>> \o ToProfileFrom(es, i + 1)

to_profile(es) == ToProfileFrom(es, 1)

\* The "New Axis" button
AddEntry ==
    /\ Len(entries) < MaxEntries
    /\ entries' = Append(entries, MergeAxisEntry(profile))
    /\ merge_axes' = to_profile(entries')
    /\ last' = Op("_add_entry", PyNone, Len(entries'), "ok")
    /\ UNCHANGED <<profile, prev, invoked, switchVars, calVars, hookVars, gui, selector>>

\* The user picks another mode in the mode selector of entry i
ModeChanged(i, idx) ==
    /\ i \in 1..Len(entries)
    /\ ~entries[i].closed
    /\ idx \in 1..Len(entries[i].mode_list)
    /\ idx # entries[i].mode_idx
    /\ entries' = [entries EXCEPT ![i].mode_idx = idx]
    /\ merge_axes' = to_profile(entries')
    /\ last' = Op("mode_changed", PyNone, i, "ok")
    /\ UNCHANGED <<profile, prev, invoked, switchVars, calVars, hookVars, gui, selector>>

\* The user closes entry i: closeEvent emits closed, connected to to_profile
CloseEntry(i) ==
    /\ i \in 1..Len(entries)
    /\ ~entries[i].closed
    /\ entries' = [entries EXCEPT ![i].closed = TRUE]
    /\ merge_axes' = to_profile(entries')
    /\ last' = Op("closeEvent", PyNone, i, "ok")
    /\ UNCHANGED <<profile, prev, invoked, switchVars, calVars, hookVars, gui, selector>>

\* ------------------------------------------------------ JoystickSelector

type_to_name_map ==
    [JoystickAxis |-> "Axis", JoystickButton |-> "Button",
     JoystickHat |-> "Hat", Keyboard |-> "Button"]

name_to_type_map ==
    [Axis |-> "JoystickAxis", Button |-> "JoystickButton", Hat |-> "JoystickHat"]

\* "{} {:d}".format(name, i): the text of an item; split() gives it back as
\* the list of its two words, so a text is kept as that list
ItemName(name, i) == <<name, i>>

\* count_map[input_type](device): a device has DeviceAxes axes, one button
\* and one hat
count_map(input_type, d) ==
    IF input_type = "JoystickAxis" THEN DeviceAxes(d) ELSE 1

\* The items of the input dropdown of device d: for each valid type, in
\* order, one item per input
RECURSIVE InputItems(_, _, _)
InputItems(d, valid_types, t) ==
    IF t > Len(valid_types) THEN <<>>
    ELSE [i \in 1..count_map(valid_types[t], d) |->
             ItemName(type_to_name_map[valid_types[t]], i)]
         \o InputItems(d, valid_types, t + 1)

\* JoystickSelector(devices, change_cb, valid_types), with sorted_devices
\* the device ids in the order of sorted(devices, key=windows_id), indexed
\* from 0 as the dropdowns are; every dropdown shows its first item
JoystickSelector(sorted_devices, valid_types) ==
    [devices |-> sorted_devices,
     valid_types |-> valid_types,
     items |-> [k \in DOMAIN sorted_devices |->
                   InputItems(sorted_devices[k], valid_types, 1)],
     device_index |-> 0,
     input_index |-> [k \in DOMAIN sorted_devices |-> 0],
     visible |-> 0]

\* QComboBox.findText(text): the index of the first item with that text,
\* from 0, or -1
findText(texts, text) ==
    IF \E n \in 1..Len(texts) : texts[n] = text
    THEN (CHOOSE n \in 1..Len(texts) :
             /\ texts[n] = text
             /\ \A m \in 1..(n - 1) : texts[m] # text) - 1
    ELSE -1

\* _device_id_to_index_map.get(device_id), 0 when the id is 0 or unknown
dev_id_of(sel, device_id) ==
    IF device_id # 0 /\ \E k \in DOMAIN sel.devices : sel.devices[k] = device_id
    THEN CHOOSE k \in DOMAIN sel.devices : sel.devices[k] = device_id
    ELSE 0

\* set_selection(input_type, device_id, input_id): the selector it leaves
set_selection(sel, input_type, device_id, input_id) ==
    LET dev_id == dev_id_of(sel, device_id)
        input_name == ItemName(type_to_name_map[input_type], input_id)
    IN IF dev_id = 0 THEN sel
       ELSE [sel EXCEPT !.device_index = dev_id,
                        !.visible = dev_id,
                        !.input_index[dev_id] = findText(sel.items[dev_id], input_name)]

\* get_selection(): currentText() of a dropdown at index -1 is empty, and
\* arr[0] of its split() raises IndexError
get_selection(sel) ==
    LET selection_id == sel.device_index
        index == sel.input_index[selection_id]
    IN IF index = -1
       THEN [device_id |-> 0, input_id |-> 0, input_type |-> "IndexError"]
       ELSE LET arr == sel.items[selection_id][index + 1]
            IN [device_id |-> sel.devices[selection_id],
                input_id |-> arr[2],
                input_type |-> name_to_type_map[arr[1]]]

\* The ids a caller may hand to set_selection: 0, the devices, an unknown id
DeviceIds == 0..(NumDevices + 1)

SetSelection(input_type, device_id, input_id) ==
    /\ selector' = set_selection(selector, input_type, device_id, input_id)
    /\ last' = Op("set_selection", input_type, <<device_id, input_id>>, "ok")
    /\ UNCHANGED <<profile, prev, invoked, switchVars, calVars, hookVars, gui, mergeVars>>

\* The user picks a device in the device dropdown: _update_device(index)
UpdateDevice(index) ==
    /\ index \in DOMAIN selector.devices
    /\ selector' = [selector EXCEPT !.device_index = index,
                                    !.visible = index,
                                    !.input_index[index] = 0]
    /\ last' = Op("_update_device", PyNone, index, "ok")
    /\ UNCHANGED <<profile, prev, invoked, switchVars, calVars, hookVars, gui, mergeVars>>

\* The user picks an item of the visible input dropdown
InputActivated(index) ==
    /\ index + 1 \in 1..Len(selector.items[selector.visible])
    /\ selector' = [selector EXCEPT !.input_index[selector.visible] = index]
    /\ last' = Op("activated", PyNone, index, "ok")
    /\ UNCHANGED <<profile, prev, invoked, switchVars, calVars, hookVars, gui, mergeVars>>

\* ------------------------------------------------------------ specification

\* Outside the Mode Switch Controller's own specification no mode is active
SwitchIdle == active_mode = PyNone /\ previous_mode = PyNone

\* The calibration dialog as constructed: first device, fresh widgets
CalibrationUi ==
    /\ current_selection_id = 1
    /\ axes = create_axes(1)
    /\ observed = [i \in 1..DeviceAxes(1) |-> NoSamples]

\* No editor dialog is open and the keyboard hook runs
HookStarted ==
    /\ keyboard_hook = "started"
    /\ dialogs = {}
    /\ delivered = 0

\* ModeManagerUi.__init__ has stopped the keyboard hook
ModeManagerOpen ==
    /\ keyboard_hook = "stopped"
    /\ dialogs = {"ModeManagerUi"}
    /\ delivered = 0

\* MergeAxisUi on a profile without merged axes
MergeAxisUi == merge_axes = <<>> /\ entries = <<>>

\* The selector of the lower half of a merge axis entry, devices in the
\* order of their ids
MergeAxisSelector ==
    selector = JoystickSelector([k \in 0..(NumDevices - 1) |-> k + 1], <<"JoystickAxis">>)

\* What the specifications other than the mode manager's share
RestInit ==
    /\ SwitchIdle /\ CalibrationUi /\ HookStarted /\ gui = GuiIdle /\ MergeAxisUi
    /\ MergeAxisSelector

\* The bindings a loaded profile may hold for its Global mode
InitConfigs ==
    {EmptyConfig,
     [i \in Inputs |-> IF i = "button1" THEN <<"X">> ELSE <<>>]}

\* A profile with the single root mode Global on every device
Init ==
    /\ \E c \in InitConfigs :
           profile = [d \in Devices |->
                         [k \in {"Global"} |->
                             [name |-> "Global", inherit |-> PyNone, config |-> c]]]
    /\ prev = profile
    /\ last = Op("init", PyNone, PyNone, "ok")
    /\ invoked = <<>>
    /\ SwitchIdle
    /\ CalibrationUi
    /\ ModeManagerOpen
    /\ gui = GuiIdle
    /\ MergeAxisUi
    /\ MergeAxisSelector

Next ==
    \/ \E name \in Names, user_input \in BOOLEAN : AddMode(name, user_input)
    \/ \E mode_name \in Names, name \in Names, user_input \in BOOLEAN :
           RenameMode(mode_name, name, user_input)
    \/ \E mode_name \in Names : DeleteMode(mode_name)
    \/ \E mode \in Names, item \in Names \cup {PyNone} : SetInherit(mode, item)

Spec == Init /\ [][Next]_vars

\* The modes of the profiles events are routed in
RouteNames == {AllNames[i] : i \in 1..(IF RouteModes < Len(AllNames) THEN RouteModes ELSE Len(AllNames))}

\* A loaded profile: the same modes with the same acyclic inheritance on
\* every device, no handler registered yet
InitRoute ==
    /\ \E inh \in [RouteNames -> RouteNames \cup {PyNone}] :
           LET m == [k \in RouteNames |->
                        [name |-> k, inherit |-> inh[k], config |-> EmptyConfig]]
           IN /\ \A k \in RouteNames : k \notin AncestorsOf(m, k)
              /\ profile = [d \in Devices |-> m]
    /\ prev = profile
    /\ last = Op("init", PyNone, PyNone, "ok")
    /\ invoked = <<>>
    /\ RestInit

NextRoute ==
    \/ \E d \in Devices, mode \in RouteNames, input \in Inputs : Bind(d, mode, input)
    \/ \E d \in Devices, input \in Inputs, active \in RouteNames :
           Route(d, input, active)

SpecRoute == InitRoute /\ [][NextRoute]_vars

\* The lists of names a script hands to cycle_modes
CycleLists == UNION {[1..n -> Names] : n \in 1..MaxCycleLen}

\* A loaded profile with one of its modes active and no history yet
InitSwitch ==
    /\ \E inh \in [RouteNames -> RouteNames \cup {PyNone}] :
           LET m == [k \in RouteNames |->
                        [name |-> k, inherit |-> inh[k], config |-> EmptyConfig]]
           IN /\ \A k \in RouteNames : k \notin AncestorsOf(m, k)
              /\ profile = [d \in Devices |-> m]
    /\ prev = profile
    /\ last = Op("init", PyNone, PyNone, "ok")
    /\ invoked = <<>>
    /\ active_mode \in RouteNames
    /\ previous_mode = PyNone
    /\ CalibrationUi
    /\ HookStarted
    /\ gui = GuiIdle
    /\ MergeAxisUi
    /\ MergeAxisSelector

NextSwitch ==
    \/ \E name \in Names : SwitchMode(name)
    \/ SwitchToPreviousMode
    \/ \E ordered_names \in CycleLists : CycleModes(ordered_names)

SpecSwitch == InitSwitch /\ [][NextSwitch]_vars

\* A profile with the single mode Global and no bindings
DefaultProfile ==
    [d \in Devices |->
        ("Global" :> [name |-> "Global", inherit |-> PyNone, config |-> EmptyConfig])]

InitCalib ==
    /\ profile = DefaultProfile
    /\ prev = profile
    /\ last = Op("init", PyNone, PyNone, "ok")
    /\ invoked = <<>>
    /\ RestInit

NextCalib ==
    \/ \E index \in Devices : CreateAxes(index)
    \/ CalibrateCenters
    \/ \E event \in Events : HandleEvent(event)

SpecCalib == InitCalib /\ [][NextCalib]_vars

\* The mode manager on a loaded profile, with routing going on
InitGui ==
    /\ \E inh \in [RouteNames -> RouteNames \cup {PyNone}] :
           LET m == [k \in RouteNames |->
                        [name |-> k, inherit |-> inh[k], config |-> EmptyConfig]]
           IN /\ \A k \in RouteNames : k \notin AncestorsOf(m, k)
              /\ profile = [d \in Devices |-> m]
    /\ prev = profile
    /\ last = Op("init", PyNone, PyNone, "ok")
    /\ invoked = <<>>
    /\ SwitchIdle
    /\ CalibrationUi
    /\ ModeManagerOpen
    /\ gui = GuiIdle
    /\ MergeAxisUi
    /\ MergeAxisSelector

NextGui ==
    \/ \E mode_name \in Names : BeginRename(mode_name)
    \/ \E name \in Names, user_input \in BOOLEAN : AnswerRename(name, user_input)
    \/ RenameMoveKey
    \/ RenameRewriteInherit
    \/ \E mode_name \in Names : BeginDelete(mode_name)
    \/ DeleteReparent
    \/ DeleteRemove
    \/ Populate
    \/ \E mode \in Names, item \in Names \cup {PyNone} : BeginSetInherit(mode, item)
    \/ SetInheritDevice
    \/ \E d \in Devices, input \in Inputs, active \in Names : RouteEvent(d, input, active)

SpecGui == InitGui /\ [][NextGui]_vars

\* The merge axis dialog and the mode manager on the same profile
InitMerge ==
    /\ profile = DefaultProfile
    /\ prev = profile
    /\ last = Op("init", PyNone, PyNone, "ok")
    /\ invoked = <<>>
    /\ SwitchIdle
    /\ CalibrationUi
    /\ ModeManagerOpen
    /\ gui = GuiIdle
    /\ MergeAxisUi
    /\ MergeAxisSelector

NextMerge ==
    \/ AddEntry
    \/ \E i \in 1..MaxEntries, idx \in 1..MaxModes : ModeChanged(i, idx)
    \/ \E i \in 1..MaxEntries : CloseEntry(i)
    \/ \E name \in Names : AddMode(name, TRUE)
    \/ \E mode_name \in Names, name \in Names : RenameMode(mode_name, name, TRUE)
    \/ \E mode_name \in Names : DeleteMode(mode_name)

SpecMerge == InitMerge /\ [][NextMerge]_vars

\* The lists of types a selector is created for
ValidTypes == {<<"JoystickAxis">>, <<"JoystickAxis", "JoystickButton">>}

\* A selector over the devices in any order of their windows_id
InitSelector ==
    /\ profile = DefaultProfile
    /\ prev = profile
    /\ last = Op("init", PyNone, PyNone, "ok")
    /\ invoked = <<>>
    /\ SwitchIdle /\ CalibrationUi /\ HookStarted /\ gui = GuiIdle /\ MergeAxisUi
    /\ \E sorted_devices \in [0..(NumDevices - 1) -> Devices], valid_types \in ValidTypes :
           /\ \A j, k \in DOMAIN sorted_devices :
                  sorted_devices[j] = sorted_devices[k] => j = k
           /\ selector = JoystickSelector(sorted_devices, valid_types)

NextSelector ==
    \/ \E input_type \in DOMAIN type_to_name_map, device_id \in DeviceIds,
          input_id \in 1..MaxInput : SetSelection(input_type, device_id, input_id)
    \/ \E index \in 0..(NumDevices - 1) : UpdateDevice(index)
    \/ \E index \in 0..(MaxInput - 1) : InputActivated(index)

SpecSelector == InitSelector /\ [][NextSelector]_vars

InitHook ==
    /\ profile = DefaultProfile
    /\ prev = profile
    /\ last = Op("init", PyNone, PyNone, "ok")
    /\ invoked = <<>>
    /\ RestInit

NextHook ==
    \/ \E dialog \in EditorDialogs : OpenDialog(dialog)
    \/ \E dialog \in EditorDialogs : CloseDialog(dialog)
    \/ KeyboardEvent
    \/ \E name \in Names, user_input \in BOOLEAN :
           "ModeManagerUi" \in dialogs /\ AddMode(name, user_input)

SpecHook == InitHook /\ [][NextHook]_vars

\* ---------------------------------------------------------------- properties

\* The inherit pointers of a profile, per device and mode
Pointers(p) == [d \in Devices |-> [k \in DOMAIN p[d] |-> p[d][k].inherit]]

\* Setting mode.inherit = candidate closes a cycle: the chain of candidate,
\* candidate included, reaches mode
WouldCycle(p, mode, candidate) ==
    \E d \in Devices : mode \in {candidate} \cup AncestorsOf(p[d], candidate)

\* C1: after any sequence of add_mode, rename_mode, delete_mode and
\* set_inherit the inherit pointers of every device form no cycle: no mode
\* is among its own ancestors.
C1_InheritanceAcyclic ==
    \A d \in Devices : \A k \in DOMAIN profile[d] : k \notin AncestorsOf(profile[d], k)

\* C1 witness: the cycle check has just refused an edge in a profile that
\* holds a chain of three modes.
C1_Witness ==
    /\ last.op = "set_inherit"
    /\ last.outcome = "CycleError"
    /\ \E k \in DOMAIN profile[FirstDevice] :
           Cardinality(AncestorsOf(profile[FirstDevice], k)) >= 2

\* C2: on every device every inherit pointer is none or the name of a mode
\* that exists on that device.
C2_NoDanglingInherit ==
    \A d \in Devices : \A k \in DOMAIN profile[d] :
        profile[d][k].inherit = PyNone \/ profile[d][k].inherit \in DOMAIN profile[d]

\* C2 witness: a mode has just been deleted that had both a parent and a
\* mode inheriting from it.
C2_Witness ==
    /\ last.op = "delete_mode"
    /\ last.mode \in DOMAIN prev[FirstDevice]
    /\ prev[FirstDevice][last.mode].inherit # PyNone
    /\ \E x \in DOMAIN prev[FirstDevice] : prev[FirstDevice][x].inherit = last.mode

\* C3: set_inherit(mode, candidate) for an existing candidate sets
\* mode.inherit = candidate only if that closes no cycle, and when it would
\* close a cycle no inherit pointer of any device changes.
C3_SetInheritRejectsCycle ==
    (/\ last.op = "set_inherit"
     /\ last.arg \in mode_list(prev))
    => /\ WouldCycle(prev, last.mode, last.arg) => Pointers(profile) = Pointers(prev)
       /\ \A d \in Devices :
              (/\ profile[d][last.mode].inherit = last.arg
               /\ prev[d][last.mode].inherit # last.arg)
              => ~WouldCycle(prev, last.mode, last.arg)

\* C4: after an accepted set_inherit(A, B) with A # B, set_inherit(B, A) is
\* rejected with CycleError and changes no inherit pointer.
C4_SecondCallRejected ==
    [][(/\ last.op = "set_inherit"
        /\ last.outcome = "ok"
        /\ last.arg \in mode_list(profile)
        /\ last.arg # last.mode
        /\ last'.op = "set_inherit"
        /\ last'.mode = last.arg
        /\ last'.arg = last.mode)
       => /\ last'.outcome = "CycleError"
          /\ Pointers(profile') = Pointers(profile)]_vars

\* C5: delete_mode(M) with M.inherit = P: on every device M is gone, every
\* mode that inherited from M inherits from P and every other mode keeps
\* its inherit pointer.
C5_DeleteReparents ==
    last.op = "delete_mode" =>
        \A d \in Devices :
            LET M == last.mode
                P == prev[d][M].inherit
            IN /\ DOMAIN profile[d] = DOMAIN prev[d] \ {M}
               /\ \A x \in DOMAIN profile[d] :
                      profile[d][x].inherit =
                          IF prev[d][x].inherit = M THEN P ELSE prev[d][x].inherit

\* C5 witness: the deleted mode had a parent and a mode inheriting from it,
\* and a further mode that did not inherit from it.
C5_Witness ==
    /\ last.op = "delete_mode"
    /\ last.mode \in DOMAIN prev[NumDevices]
    /\ prev[NumDevices][last.mode].inherit # PyNone
    /\ \E x \in DOMAIN prev[NumDevices] : prev[NumDevices][x].inherit = last.mode
    /\ \E y \in DOMAIN profile[NumDevices] : prev[NumDevices][y].inherit # last.mode

\* The name of a mode after old has been renamed to new
Renamed(k, old, new) == IF k = old THEN new ELSE k

RenamedSeq(s, old, new) == [i \in 1..Len(s) |-> Renamed(s[i], old, new)]

\* C6: rename_mode(old, new) with new not yet existing: on every device every
\* inherit pointer equal to old becomes new, the renamed mode keeps its own
\* inherit pointer and bindings under the new name, and every resolve_chain
\* result is the one before the rename with old replaced by new.
C6_RenameRewrites ==
    (last.op = "rename_mode" /\ last.outcome = "ok") =>
        \A d \in Devices :
            LET old == last.mode
                new == last.arg
            IN /\ DOMAIN profile[d] = {Renamed(k, old, new) : k \in DOMAIN prev[d]}
               /\ \A k \in DOMAIN prev[d] :
                      LET after == profile[d][Renamed(k, old, new)] IN
                      /\ after.name = Renamed(k, old, new)
                      /\ after.inherit = Renamed(prev[d][k].inherit, old, new)
                      /\ after.config = prev[d][k].config
                      /\ resolve_chain(profile, d, Renamed(k, old, new))
                             = RenamedSeq(resolve_chain(prev, d, k), old, new)

\* C6 witness: the renamed mode had bindings and another mode inherited
\* from it; the dependent mode now resolves through the new name.
C6_Witness ==
    /\ last.op = "rename_mode"
    /\ last.outcome = "ok"
    /\ prev[NumDevices][last.mode].config # EmptyConfig
    /\ \E x \in DOMAIN prev[NumDevices] :
           /\ prev[NumDevices][x].inherit = last.mode
           /\ resolve_chain(profile, NumDevices, x) = <<x, last.arg>>

\* C7: add_mode(name) fails with DuplicateNameError and changes nothing when
\* name exists on any device; otherwise it creates name on every device with
\* inherit = none and leaves every existing mode as it was.
C7_AddMode ==
    (last.op = "add_mode" /\ last.outcome # "cancelled") =>
        IF \E d \in Devices : last.mode \in DOMAIN prev[d]
        THEN last.outcome = "DuplicateNameError" /\ profile = prev
        ELSE /\ last.outcome = "ok"
             /\ \A d \in Devices :
                    /\ DOMAIN profile[d] = DOMAIN prev[d] \cup {last.mode}
                    /\ profile[d][last.mode].name = last.mode
                    /\ profile[d][last.mode].inherit = PyNone
                    /\ \A k \in DOMAIN prev[d] : profile[d][k] = prev[d][k]

\* C7 witness: add_mode was refused for the name of a mode that has a parent.
C7_Witness ==
    /\ last.op = "add_mode"
    /\ last.outcome = "DuplicateNameError"
    /\ prev[FirstDevice][last.mode].inherit # PyNone

\* C8: rename_mode(old, new) with new existing (new = old included) fails
\* with DuplicateNameError and leaves the mode names and every inherit
\* pointer of every device unchanged.
C8_RenameDuplicate ==
    (/\ last.op = "rename_mode"
     /\ last.outcome # "cancelled"
     /\ \E d \in Devices : last.arg \in DOMAIN prev[d])
    => /\ last.outcome = "DuplicateNameError"
       /\ profile = prev

\* C8 witness: a rename onto the name of another existing mode was refused,
\* where the two modes differ in their inherit pointer.
C8_Witness ==
    /\ last.op = "rename_mode"
    /\ last.outcome = "DuplicateNameError"
    /\ last.arg # last.mode
    /\ prev[FirstDevice][last.arg].inherit # prev[FirstDevice][last.mode].inherit

\* C9: every device of the profile has the same set of mode names.
C9_SameModeNames ==
    \A d, e \in Devices : DOMAIN profile[d] = DOMAIN profile[e]

\* C9 witness: a mode has just been added next to two others, on the last
\* device as on the first.
C9_Witness ==
    /\ last.op = "add_mode"
    /\ last.outcome = "ok"
    /\ Cardinality(DOMAIN profile[NumDevices]) >= 3
    /\ last.mode \in DOMAIN profile[NumDevices]

\* C10: routing an event of (device, input) in active mode A invokes exactly
\* the handlers bound at the first mode of resolve_chain(device, A) that
\* binds the input, once each and in registration order; when no mode of
\* the chain binds the input nothing is invoked.
C10_RouteFirstBound ==
    last.op = "route" =>
        LET d == last.arg[1]
            input == last.arg[2]
            chain == resolve_chain(profile, d, last.mode)
            bound == {i \in 1..Len(chain) : profile[d][chain[i]].config[input] # <<>>}
        IN /\ chain[1] = last.mode
           /\ IF bound = {}
              THEN invoked = <<>>
              ELSE \E i \in bound :
                       /\ \A j \in bound : i <= j
                       /\ invoked = profile[d][chain[i]].config[input]
                       /\ \A j \in bound \ {i} :
                              \A n \in 1..Len(profile[d][chain[j]].config[input]) :
                                  \A x \in 1..Len(invoked) :
                                      invoked[x] # profile[d][chain[j]].config[input][n]

\* C10 witness: the active mode does not bind the input, its parent binds
\* two handlers to it, and both were invoked.
C10_Witness ==
    /\ last.op = "route"
    /\ profile[last.arg[1]][last.mode].config[last.arg[2]] = <<>>
    /\ profile[last.arg[1]][last.mode].inherit # PyNone
    /\ Len(profile[last.arg[1]][profile[last.arg[1]][last.mode].inherit].config[last.arg[2]]) = 2
    /\ Len(invoked) = 2

\* C11: switch_mode(X) for a known mode X in active mode M, immediately
\* followed by switch_to_previous_mode(), leaves active_mode = M and
\* previous_mode = X; switch_to_previous_mode() with previous_mode unset
\* changes neither.
C11_TemporarySwitch ==
    [][/\ (/\ last.op = "switch_mode"
           /\ last.outcome = "ok"
           /\ last'.op = "switch_to_previous_mode")
          => (active_mode' = last.arg /\ previous_mode' = last.mode)
       /\ (last'.op = "switch_to_previous_mode" /\ previous_mode = PyNone)
          => UNCHANGED <<active_mode, previous_mode>>]_vars

\* C11 witness: switch_to_previous_mode has just undone a switch_mode to
\* another mode.
C11_Witness ==
    /\ last.op = "switch_to_previous_mode"
    /\ last.arg = "switch_mode"
    /\ previous_mode = last.mode
    /\ active_mode # previous_mode

\* C12: cycle_modes(ordered_names) with the active mode in the list makes
\* the name after it active, the first name after the last; with the active
\* mode not in the list it fails with InvalidArgumentError and the active
\* mode stays.
C12_CycleModes ==
    last.op = "cycle_modes" =>
        IF \E i \in 1..Len(last.arg) : last.arg[i] = last.mode
        THEN /\ last.outcome = "ok"
             /\ \E i \in 1..Len(last.arg) :
                    /\ last.arg[i] = last.mode
                    /\ active_mode = last.arg[IF i = Len(last.arg) THEN 1 ELSE i + 1]
        ELSE /\ last.outcome = "InvalidArgumentError"
             /\ active_mode = last.mode

\* C12 witness: cycle_modes has wrapped from the last name of a list of
\* distinct names to the first.
C12_Witness ==
    /\ last.op = "cycle_modes"
    /\ last.outcome = "ok"
    /\ Len(last.arg) >= 2
    /\ last.arg[Len(last.arg)] = last.mode
    /\ last.arg[1] # last.mode
    /\ active_mode = last.arg[1]

C14_CenteredFrame ==
    [][/\ last'.op = "_calibrate_centers" =>
             /\ DOMAIN axes' = DOMAIN axes
             /\ \A i \in DOMAIN axes :
                   /\ axes'[i].minimum = axes[i].minimum
                   /\ axes'[i].maximum = axes[i].maximum
                   /\ axes'[i].current = axes[i].current
                   /\ observed[i].any =>
                         /\ axes'[i].captured
                         /\ axes'[i].center = observed[i].recent
       /\ (/\ last'.op = "_handle_event"
           /\ \/ last'.arg[1] # current_selection_id
              \/ last'.arg[2] # "JoystickAxis")
          => axes' = axes]_vars

\* C14 witness: the capture has set the centers of both axes of the
\* selected device, to different samples, away from their extrema.
C14_Witness ==
    /\ last.op = "_calibrate_centers"
    /\ Len(axes) = 2
    /\ \A i \in DOMAIN axes :
          /\ axes[i].captured
          /\ axes[i].center = observed[i].recent
          /\ axes[i].minimum < axes[i].maximum
    /\ axes[1].center # axes[2].center

\* C15: while an editor dialog is open, from its construction to its
\* closeEvent, the keyboard hook is stopped and no keyboard event is
\* delivered, whatever the other editor dialog does in between.
C15_HookStoppedWhileOpen ==
    dialogs # {} => (keyboard_hook = "stopped" /\ last.op # "keyboard_event")

\* The items of the inheritance dropdown of mode
DropdownItems(p, mode) == {PyNone} \cup (mode_list(p) \ {mode})

\* C17: from every mode the inherit pointers lead to a root without
\* visiting a mode twice, so resolve_chain ends, and the cycle check of
\* set_inherit ends within as many steps as there are modes for every item
\* a dropdown offers.
C17_WalksTerminate ==
    /\ \A d \in Devices : \A k \in DOMAIN profile[d] :
          LET chain == resolve_chain(profile, d, k)
          IN /\ Len(chain) >= 1
             /\ Len(chain) <= Cardinality(DOMAIN profile[d])
             /\ \A i, j \in 1..Len(chain) : chain[i] = chain[j] => i = j
             /\ chain[Len(chain)] \in DOMAIN profile[d]
             /\ profile[d][chain[Len(chain)]].inherit = PyNone
    /\ \A mode \in mode_list(profile) : \A item \in DropdownItems(profile, mode) :
          /\ has_inheritance_cycle(profile, mode, ItemText(item)) # "error"
          /\ ItemText(item) # "None" =>
                CycleWalk(profile[FirstDevice], ItemText(item), mode,
                          Cardinality(DOMAIN profile[FirstDevice])) # "error"

\* C17 witness: a chain through every mode exists and the cycle check has
\* walked to its end and rejected an edge.
C17_Witness ==
    /\ last.op = "set_inherit"
    /\ last.outcome = "CycleError"
    /\ \E d \in Devices : \E k \in DOMAIN profile[d] :
          Len(resolve_chain(profile, d, k)) = MaxModes

\* C18: a mode has the same inherit pointer on every device that has it,
\* so the cycle check and the parent lookup of delete_mode read from the
\* first device what they would read from any other.
C18_SameInheritEverywhere ==
    /\ \A d, e \in Devices : \A k \in DOMAIN profile[d] \cap DOMAIN profile[e] :
          profile[d][k].inherit = profile[e][k].inherit
    /\ \A d \in Devices : \A mode \in mode_list(profile) :
          /\ mode \in DOMAIN profile[d]
          /\ profile[d][mode].inherit = parent_of_deleted(profile, mode)
          /\ \A item \in DropdownItems(profile, mode) \ {PyNone} :
                CycleWalk(profile[d], item, mode, Len(AllNames) + 1)
                    = CycleWalk(profile[FirstDevice], item, mode, Len(AllNames) + 1)

\* C18 witness: set_inherit has given a mode a parent on every device.
C18_Witness ==
    /\ last.op = "set_inherit"
    /\ last.outcome = "ok"
    /\ last.arg # PyNone
    /\ \A d \in Devices : profile[d][last.mode].inherit = last.arg

\* Every device has the same modes with the same inherit pointers, each
\* mode is stored under its name, and every pointer names a mode
Settled(p) ==
    \A d \in Devices :
        /\ DOMAIN p[d] = DOMAIN p[FirstDevice]
        /\ \A k \in DOMAIN p[d] :
              /\ p[d][k].name = k
              /\ p[d][k].inherit = p[FirstDevice][k].inherit
              /\ p[d][k].inherit \in DOMAIN p[d] \cup {PyNone}

MidOperation == gui.pc \notin {"idle", "getText"} /\ ~Settled(profile)

\* C19: every merged-axis definition of the profile names a mode that
\* exists, whatever modes were renamed or deleted.
C19_MergeAxesModeExists ==
    \A i \in 1..Len(merge_axes) : merge_axes[i].mode \in mode_list(profile)

\* The definitions of the entries of es that are open, from position i on
RECURSIVE OpenDefinitions(_, _)
OpenDefinitions(es, i) ==
    IF i > Len(es) THEN <<>>
    ELSE (IF es[i].closed \/ es[i].mode_idx = 0 THEN <<>>
          ELSE <<[mode |-> es[i].mode_list[es[i].mode_idx]]>>)
         \o OpenDefinitions(es, i + 1)

\* C20: merge_axes holds one definition per entry that is still open, in
\* the order the entries were created, and none for a closed entry.
C20_OnlyOpenEntries ==
    merge_axes = OpenDefinitions(entries, 1)

\* The call is one the round trip is claimed for: a device of the selector,
\* a valid type, an input the device has
ValidSelection(sel, input_type, device_id, input_id) ==
    /\ \E k \in DOMAIN sel.devices : sel.devices[k] = device_id
    /\ input_type \in Range(sel.valid_types)
    /\ input_id \in 1..count_map(input_type, device_id)

\* C21: after set_selection(input_type, device_id, input_id) for a device
\* of the selector, at any position of the sorted device list, and a valid
\* input of an allowed type, get_selection() returns that device_id,
\* input_id and input_type.
C21_SelectorRoundTrip ==
    (/\ last.op = "set_selection"
     /\ ValidSelection(selector, last.mode, last.arg[1], last.arg[2]))
    => get_selection(selector) =
           [device_id |-> last.arg[1], input_id |-> last.arg[2], input_type |-> last.mode]

\* The round trip for the devices after the first of the sorted list
RoundTripAfterFirst ==
    (/\ last.op = "set_selection"
     /\ ValidSelection(selector, last.mode, last.arg[1], last.arg[2])
     /\ selector.devices[0] # last.arg[1])
    => get_selection(selector) =
           [device_id |-> last.arg[1], input_id |-> last.arg[2], input_type |-> last.mode]

====
